---- MODULE Spec2Model ----
(***************************************************************************)
(* Model of the image editor's two stateful subsystems:                    *)
(*   - the edit history kept by the Home page component (src/app/page.tsx  *)
(*     and its replace-in-place revision src/unnamed/part_004), persisted  *)
(*     through src/lib/historyUtils.ts;                                    *)
(*   - the reference-counted BlobURLManager (src/lib/blobURLManager.ts).   *)
(* The two subsystems share no state; Spec runs the page, SpecBlob runs    *)
(* the manager, SpecStore calls saveHistory and loadHistory directly.      *)
(* SpecRetry runs withRetry of src/lib/imageUtils.ts, FairSpecGen the      *)
(* awaits of a generate transition, and SpecPreview the ImagePreview       *)
(* component of src/unnamed/part_000 as a caller of the manager.           *)
(***************************************************************************)
EXTENDS Integers, Sequences, FiniteSets, Bags, TLC

\* ------------------------------------------------------------------ bounds
\* fresh ids handed out by generateId() in one run
MaxIds == 3
\* generate requests that may be awaiting the server action at once
MaxInflight == 2

\* elements of a stored array that this program did not write, and items by
\* which a list passed to saveHistory exceeds a retention limit
MaxStored == 2
MaxOver == 2

\* getOrCreateURL calls in one run
MaxAcquires == 2
\* releaseURL calls in one run
MaxReleases == 2
\* steps the clock makes in one run
MaxTicks == 2

\* largest maxRetries passed to withRetry
MaxRetries == 3

\* optimizeImage calls of one ImagePreview that may be awaiting at once
MaxOptimizing == 2

\* ------------------------------------------------------- program constants
MAX_HISTORY_ITEMS == 50
REDUCED_HISTORY_ITEMS == 10
MAX_PROMPT_LENGTH == 1000
\* cleanup(maxAge = 5 * 60 * 1000) and setInterval(..., 60000), milliseconds
DEFAULT_MAX_AGE == 300000
\* resizeImage: withRetry(..., 3, 1000, ...)
RESIZE_RETRIES == 3
CLEANUP_INTERVAL == 60000

\* ------------------------------------------------------------- value sets
\* null / undefined of the source
Null == 0

\* a null imageFile and a null outputImage
NoFile == [type |-> "", bytes |-> 0]
NoImage == [mime |-> "", data |-> 0]

\* the two revisions of the Home component
Variants == {"page", "part_004"}

\* files the user can drop: MIME type and payload
Files == {[type |-> "jpeg", bytes |-> 1]}

\* prompts the user types, as character sequences: empty, blank, non-blank
Prompts == {<<>>, <<" ">>, <<"a">>}

\* what the server action can resolve to: data 0 is no data
Results ==
  {[success |-> TRUE, data |-> 1], [success |-> FALSE, data |-> 0]}

\* what localStorage can do during one saveHistory / clearHistory call:
\*   ok      every call succeeds
\*   quota1  the first setItem throws, removeItem and the second setItem work
\*   quota2  both setItem calls throw, removeItem works
\*   denied  every localStorage call throws
StorageOutcomes == {"ok", "quota1", "quota2", "denied"}

\* lists a previous session can have left under the storage key
StoredSeeds ==
  {<<[id |-> 101, imageData |-> [mime |-> "jpeg", data |-> 1], prompt |-> <<>>,
      timestamp |-> 0, isOriginal |-> TRUE],
     [id |-> 102, imageData |-> [mime |-> "png", data |-> 1], prompt |-> <<"a">>,
      timestamp |-> 0, isOriginal |-> FALSE]>>}

\* ------------------------------------------------------------------ state
VARIABLES
  variant,           \* which revision of Home is running
  mounted,           \* the mount effect (hydrate) has run
  imageFile,         \* AppState.imageFile, NoFile or a file
  prompt,            \* AppState.prompt
  outputImage,       \* AppState.outputImage, NoImage or image data
  status,            \* AppState.status
  imageHistory,      \* AppState.imageHistory
  currentHistoryId,  \* AppState.currentHistoryId, Null or an id
  storage,           \* localStorage[HISTORY_STORAGE_KEY]
  reading,           \* files a FileReader is still reading
  inflight,          \* generate transitions awaiting their result
  nextId,            \* ids handed out so far by generateId()
  now,               \* Date.now()
  lastOp,            \* what the last handler did, for the properties below
  ret,               \* how the last direct call of saveHistory, loadHistory
                     \* or revokeURL ended, for the properties below
  urlMap,            \* BlobURLManager.urlMap: url -> reference
  sourceKeyMap,      \* BlobURLManager.sourceKeyMap: sourceKey -> url
  platform,          \* object URLs created and not revoked on the platform
  nextUrl,           \* object URLs created so far
  calls,             \* per created url: its source, the getOrCreateURL calls
                     \* that returned it and the releaseURL calls made on it
  stalled,           \* awaited calls of generate transitions that never
                     \* complete
  retry,             \* the withRetry call in progress: its loop variables
  preview            \* the ImagePreview component: its state, refs, debounce
                     \* timer and running optimizeImage calls

histVars == <<variant, mounted, imageFile, prompt, outputImage, status,
              imageHistory, currentHistoryId, storage, reading,
              inflight, nextId, lastOp>>

blobVars == <<urlMap, sourceKeyMap, platform, nextUrl, calls>>

storeVars == <<ret>>

asyncVars == <<stalled, retry, preview>>

\* ------------------------------------------------------- array primitives
Max(a, b) == IF a >= b THEN a ELSE b
Min(a, b) == IF a <= b THEN a ELSE b

\* Array.prototype.findIndex on ids: 0-based, -1 when absent
findIndex(h, id) ==
  IF \E i \in 1..Len(h) : h[i].id = id
  THEN (CHOOSE i \in 1..Len(h) :
          h[i].id = id /\ \A j \in 1..(i - 1) : h[j].id # id) - 1
  ELSE -1

\* Array.prototype.slice(0, end) for end >= 0
slice(h, end) == SubSeq(h, 1, Min(end, Len(h)))

\* Array.prototype.slice(-n)
sliceLast(h, n) == SubSeq(h, Max(1, Len(h) - n + 1), Len(h))

Ids(h) == {h[i].id : i \in 1..Len(h)}

\* String.prototype.trim on the modelled alphabet
RECURSIVE trimStart(_)
trimStart(s) ==
  IF s # <<>> /\ Head(s) = " " THEN trimStart(Tail(s)) ELSE s

RECURSIVE trimEnd(_)
trimEnd(s) ==
  IF s # <<>> /\ s[Len(s)] = " " THEN trimEnd(SubSeq(s, 1, Len(s) - 1)) ELSE s

trim(s) == trimEnd(trimStart(s))

\* ---------------------------------------------------------- historyUtils
createHistoryItem(imageData, p, isOriginal) ==
  [id |-> nextId + 1, imageData |-> imageData, prompt |-> p,
   timestamp |-> now, isOriginal |-> isOriginal]

\* --- JSON values, as JSON.parse returns them and typeof sees them
JNull == [t |-> "null", v |-> 0]
JString(v) == [t |-> "string", v |-> v]
JNumber(v) == [t |-> "number", v |-> v]
JBoolean(v) == [t |-> "boolean", v |-> v]
JObject(props) == [t |-> "object", v |-> props]
JArray(elements) == [t |-> "array", v |-> elements]

\* a property that an object does not have
Undefined == [t |-> "undefined", v |-> 0]

\* the typeof operator: null, arrays and objects are all 'object'
typeof(x) == IF x.t \in {"null", "array", "object"} THEN "object" ELSE x.t

\* item.name for an item that is not null: arrays and primitives have no such
\* property
property(x, name) ==
  IF x.t = "object" /\ name \in DOMAIN x.v THEN x.v[name] ELSE Undefined

\* JSON.stringify of one HistoryItem; Date.now() timestamps are finite
stringifyItem(item) ==
  JObject([id |-> JString(item.id), imageData |-> JString(item.imageData),
           prompt |-> JString(item.prompt), timestamp |-> JNumber(item.timestamp),
           isOriginal |-> JBoolean(item.isOriginal)])

\* the HistoryItem that a parsed element which passed validation is; a missing
\* isOriginal reads as false wherever the program reads it
parsedItem(x) ==
  [id |-> x.v.id.v, imageData |-> x.v.imageData.v, prompt |-> x.v.prompt.v,
   timestamp |-> x.v.timestamp.v,
   isOriginal |-> property(x, "isOriginal").t = "boolean" /\ property(x, "isOriginal").v]

\* the value of the storage key: absent (getItem returns null), or a text that
\* JSON.parse either rejects (valid = FALSE; the empty string is such a text
\* and is falsy as well) or parses to value
NoStorage == [present |-> FALSE, valid |-> FALSE, value |-> JNull]
BadText == [present |-> TRUE, valid |-> FALSE, value |-> JNull]
Text(value) == [present |-> TRUE, valid |-> TRUE, value |-> value]

\* JSON.stringify(history)
stringify(history) ==
  Text(JArray([i \in 1..Len(history) |-> stringifyItem(history[i])]))

\* how a call ended: it returned value, or it threw; stored is the storage key
\* after it
Returned(value, stored) == [threw |-> FALSE, value |-> value, stored |-> stored]
Thrown(stored) == [threw |-> TRUE, value |-> <<>>, stored |-> stored]

\* localStorage.setItem and localStorage.removeItem; ok is whether the call
\* returns rather than throws
setItem(stored, text, ok) ==
  IF ok THEN Returned(<<>>, text) ELSE Thrown(stored)

\* a removeItem that returns without removing the key
removeItem_Keeps(stored, ok) ==
  IF ok THEN Returned(<<>>, stored) ELSE Thrown(stored)

removeItem(stored, ok) ==
  IF ok THEN Returned(<<>>, NoStorage) ELSE Thrown(stored)

\* saveHistory without the retry that writes the last ten items
saveHistory_NoRetry(stored, history, outcome) ==
  CASE outcome = "ok" -> stringify(sliceLast(history, MAX_HISTORY_ITEMS))
    [] outcome \in {"quota1", "quota2"} -> NoStorage
    [] OTHER -> stored

\* saveHistory whose retry is not wrapped in a try block of its own
saveHistoryCall_NoInnerCatch(stored, history, outcome) ==
  LET limitedHistory == sliceLast(history, MAX_HISTORY_ITEMS)
      first == setItem(stored, stringify(limitedHistory), outcome = "ok")
  IN IF ~first.threw THEN first
     ELSE LET removed == removeItem(first.stored, outcome # "denied")
              reducedHistory == sliceLast(history, REDUCED_HISTORY_ITEMS)
          IN IF removed.threw THEN removed
             ELSE setItem(removed.stored, stringify(reducedHistory),
                          outcome = "quota1")

\* saveHistory that keeps the oldest items: slice(0, n) for slice(-n)
saveHistoryCall_KeepOldest(stored, history, outcome) ==
  LET limitedHistory == slice(history, MAX_HISTORY_ITEMS)
      first == setItem(stored, stringify(limitedHistory), outcome = "ok")
  IN IF ~first.threw THEN first
     ELSE LET removed == removeItem(first.stored, outcome # "denied")
              reducedHistory == slice(history, REDUCED_HISTORY_ITEMS)
              second == IF removed.threw THEN removed
                        ELSE setItem(removed.stored, stringify(reducedHistory),
                                     outcome = "quota1")
          IN Returned(<<>>, second.stored)

\* saveHistory(history): the outer try, and the retry in the catch block with
\* its own try; what is thrown in the retry is caught and logged
saveHistoryCall(stored, history, outcome) ==
  LET limitedHistory == sliceLast(history, MAX_HISTORY_ITEMS)
      first == setItem(stored, stringify(limitedHistory), outcome = "ok")
  IN IF ~first.threw THEN first
     ELSE LET removed == removeItem(first.stored, outcome # "denied")
              reducedHistory == sliceLast(history, REDUCED_HISTORY_ITEMS)
              second == IF removed.threw THEN removed
                        ELSE setItem(removed.stored, stringify(reducedHistory),
                                     outcome = "quota1")
          IN Returned(<<>>, second.stored)

\* the value of the storage key after saveHistory(history)
saveHistory(stored, history, outcome) ==
  saveHistoryCall(stored, history, outcome).stored

\* the filter callback of loadHistory on one parsed element: "throws" for
\* null, whose typeof is 'object' and whose property access is a TypeError
isHistoryItem(item) ==
  IF typeof(item) # "object" THEN "false"
  ELSE IF item.t = "null" THEN "throws"
  ELSE IF /\ typeof(property(item, "id")) = "string"
          /\ typeof(property(item, "imageData")) = "string"
          /\ typeof(property(item, "prompt")) = "string"
          /\ typeof(property(item, "timestamp")) = "number"
       THEN "true"
       ELSE "false"

\* a filter that hands the passing elements back last first
RECURSIVE filter_Reversed(_)
filter_Reversed(elements) ==
  IF elements = <<>> THEN <<>>
  ELSE IF isHistoryItem(Head(elements)) = "true"
       THEN filter_Reversed(Tail(elements)) \o <<parsedItem(Head(elements))>>
       ELSE filter_Reversed(Tail(elements))

\* parsed.filter(...): the elements that pass, in their order
RECURSIVE filter(_)
filter(elements) ==
  IF elements = <<>> THEN <<>>
  ELSE IF isHistoryItem(Head(elements)) = "true"
       THEN <<parsedItem(Head(elements))>> \o filter(Tail(elements))
       ELSE filter(Tail(elements))

\* the try block of loadHistory; access is whether localStorage.getItem
\* returns rather than throws
loadHistoryTry(stored, access) ==
  IF ~access THEN Thrown(stored)
  ELSE IF ~stored.present THEN Returned(<<>>, stored)
  ELSE IF ~stored.valid THEN Thrown(stored)
  ELSE IF stored.value.t # "array" THEN Returned(<<>>, stored)
  ELSE IF \E i \in 1..Len(stored.value.v) :
            isHistoryItem(stored.value.v[i]) = "throws"
       THEN Thrown(stored)
       ELSE Returned(filter(stored.value.v), stored)

\* loadHistory without its catch block
loadHistoryCall_NoCatch(stored, access) == loadHistoryTry(stored, access)

\* loadHistory(): the catch block returns the empty list
loadHistoryCall(stored, access) ==
  LET tried == loadHistoryTry(stored, access)
  IN IF tried.threw THEN Returned(<<>>, stored) ELSE tried

\* what loadHistory returns
loadHistory(stored, access) == loadHistoryCall(stored, access).value

\* the value of the storage key after clearHistory()
clearHistory(stored, outcome) ==
  IF outcome = "denied" THEN stored ELSE NoStorage

\* ------------------------------------------------------------ PromptInput
canGenerate(p, isLoading, disabled) ==
  /\ Len(trim(p)) > 0
  /\ ~(Len(p) > MAX_PROMPT_LENGTH)
  /\ ~isLoading
  /\ ~disabled

\* ------------------------------------------------------------------- Home
\* lastOp names the handler that ran last when it is handleRevert, or a
\* generate that directly follows a revert; id and before are the argument of
\* that revert and the history it was applied to. For the revert itself it
\* also keeps what localStorage did (outcome) and the state before the call
\* (pre): the storage value when the id was found and no localStorage call
\* returned, and currentHistoryId, status, outputImage and the storage value
\* when the id was not found. When the revert
\* repeats the call made just before it, once keeps the imageHistory and the
\* currentHistoryId which that first call left
NoOp == [op |-> "other", id |-> Null, found |-> FALSE, before |-> <<>>,
         outcome |-> "", pre |-> <<>>, once |-> <<>>]

\* ret before any direct call: op is the function called, threw and value how
\* it ended, arg the list passed to the last saveHistory, outcome what
\* localStorage did in it, pre the storage key before it when nothing was
\* written; for revokeURL, arg is the url, outcome what the platform did and
\* pre the entry before the call
NoCall == [op |-> "none", threw |-> FALSE, value |-> <<>>, arg |-> <<>>,
           outcome |-> "", pre |-> <<>>]

\* the Error of withRetry's initialiser, and the error an attempt rejects with
UnknownError == [message |-> "Unknown error", attempt |-> 0]
AttemptError(message, attempt) == [message |-> message, attempt |-> attempt]

\* no withRetry call has been made. pc is where the call stands: idle, calling
\* (awaiting operation()), waiting (awaiting the delay), returned or thrown;
\* attempt and lastError are the loop's variables; invoked counts the calls of
\* operation, validated those of validateImageFile and decoded the Image
\* elements made; settled lists how the attempts ended; raised is what withRetry
\* threw
NoRetry ==
  [pc |-> "idle", operation |-> "", file |-> "", maxRetries |-> 0,
   attempt |-> 0, invoked |-> 0, validated |-> 0, decoded |-> 0,
   lastError |-> UnknownError, settled |-> <<>>, raised |-> <<>>]

\* a null lastOptimizedSizeRef and the container size before it is measured
NoSize == [width |-> 0, height |-> 0]

\* the ImagePreview component before it is mounted: its props, state and refs
\* as useState / useRef initialise them. timer is the pending debounce timeout
\* (at most one callback), running the optimizeImage calls that are awaiting
NoPreview ==
  [pc |-> "unmounted", src |-> [scheme |-> "", id |-> 0],
   containerSize |-> NoSize, isOptimizing |-> FALSE,
   managedOptimizedURL |-> Null, managedURLRef |-> Null,
   lastOptimizedSize |-> NoSize, timer |-> <<>>, running |-> EmptyBag]

\* the state after construction, but for the storage key
InitHome ==
  /\ variant \in Variants
  /\ mounted = FALSE
  /\ imageFile = NoFile
  /\ prompt = <<>>
  /\ outputImage = NoImage
  /\ status = "idle"
  /\ imageHistory = <<>>
  /\ currentHistoryId = Null
  /\ reading = {}
  /\ inflight = EmptyBag
  /\ nextId = 0
  /\ now = 0
  /\ lastOp = NoOp
  /\ ret = NoCall
  /\ urlMap = <<>>
  /\ sourceKeyMap = <<>>
  /\ platform = {}
  /\ nextUrl = 0
  /\ calls = <<>>
  /\ stalled = {}
  /\ retry = NoRetry
  /\ preview = NoPreview

\* the storage key is absent or holds what a previous session saved
Init ==
  /\ InitHome
  /\ storage \in {NoStorage} \cup {stringify(s) : s \in StoredSeeds}

\* the mount effect
Hydrate(access) ==
  /\ UNCHANGED <<blobVars, storeVars, asyncVars>>
  /\ ~mounted
  /\ mounted' = TRUE
  /\ LET savedHistory == loadHistory(storage, access)
     IN IF Len(savedHistory) > 0
        THEN /\ imageHistory' = savedHistory
             /\ currentHistoryId' = savedHistory[Len(savedHistory)].id
             /\ outputImage' = savedHistory[Len(savedHistory)].imageData
        ELSE UNCHANGED <<imageHistory, currentHistoryId, outputImage>>
  /\ lastOp' = NoOp
  /\ UNCHANGED <<variant, imageFile, prompt, status, storage,
                 reading, inflight, nextId, now>>

\* handleImageSelect up to reader.readAsDataURL(file); the dropzone is
\* rendered only while there is no image file
handleImageSelect(file) ==
  /\ UNCHANGED <<blobVars, storeVars, asyncVars>>
  /\ mounted
  /\ imageFile = NoFile
  /\ file \notin reading
  /\ reading' = reading \cup {file}
  /\ lastOp' = NoOp
  /\ UNCHANGED <<variant, mounted, imageFile, prompt, outputImage, status,
                 imageHistory, currentHistoryId, storage,
                 inflight, nextId, now>>

\* reader.onload of handleImageSelect
readerOnload(file, outcome) ==
  /\ UNCHANGED <<blobVars, storeVars, asyncVars>>
  /\ file \in reading
  /\ nextId < MaxIds
  /\ reading' = reading \ {file}
  /\ LET base64Data == [mime |-> file.type, data |-> file.bytes]
         originalItem == createHistoryItem(base64Data, <<>>, TRUE)
         newHistory == <<originalItem>>
     IN /\ imageFile' = file
        /\ status' = "idle"
        /\ outputImage' = NoImage
        /\ imageHistory' = newHistory
        /\ currentHistoryId' = originalItem.id
        /\ storage' = saveHistory(storage, newHistory, outcome)
  /\ nextId' = nextId + 1
  /\ UNCHANGED inflight
  /\ lastOp' = NoOp
  /\ UNCHANGED <<variant, mounted, prompt, now>>

handlePromptChange(p) ==
  /\ UNCHANGED <<blobVars, storeVars, asyncVars>>
  /\ mounted
  /\ imageFile # NoFile
  /\ status # "loading"
  /\ p # prompt
  /\ prompt' = p
  /\ lastOp' = NoOp
  /\ UNCHANGED <<variant, mounted, imageFile, outputImage, status,
                 imageHistory, currentHistoryId, storage,
                 reading, inflight, nextId, now>>

\* the captured `state` of the render in which handleGenerate was called; the
\* async transition keeps reading it after later renders
Request ==
  [imageHistory |-> imageHistory, currentHistoryId |-> currentHistoryId,
   prompt |-> prompt]

\* Enter key or Generate button of PromptInput, then handleGenerate up to the
\* start of the transition
handleGenerate ==
  /\ UNCHANGED <<blobVars, storeVars, asyncVars>>
  /\ mounted
  /\ imageFile # NoFile
  /\ canGenerate(prompt, status = "loading", FALSE)
  /\ ~(imageFile = NoFile \/ trim(prompt) = <<>>)
  /\ BagCardinality(inflight) < MaxInflight
  /\ status' = "loading"
  /\ inflight' = inflight (+) SetToBag({Request})
  /\ lastOp' = IF lastOp.op = "revert" /\ lastOp.found
                THEN [lastOp EXCEPT !.op = "generate", !.outcome = "",
                                     !.pre = <<>>, !.once = <<>>]
                ELSE NoOp
  /\ UNCHANGED <<variant, mounted, imageFile, prompt, outputImage,
                 imageHistory, currentHistoryId, storage,
                 reading, nextId, now>>

\* updatedHistory that puts the new item in front of the captured history
updatedHistory_Front(v, req, newHistoryItem) ==
  <<newHistoryItem>> \o req.imageHistory

\* updatedHistory that appends in both revisions
updatedHistory_Append(v, req, newHistoryItem) ==
  Append(req.imageHistory, newHistoryItem)

\* updatedHistory of the success branch of handleGenerate
updatedHistory(v, req, newHistoryItem) ==
  IF v = "page"
  THEN Append(req.imageHistory, newHistoryItem)
  ELSE LET currentIndex ==
             IF req.currentHistoryId # Null
             THEN findIndex(req.imageHistory, req.currentHistoryId)
             ELSE -1
           isEditingFromAIGenerated ==
             currentIndex >= 0 /\ ~req.imageHistory[currentIndex + 1].isOriginal
       IN IF isEditingFromAIGenerated
          THEN [req.imageHistory EXCEPT ![currentIndex + 1] = newHistoryItem]
          ELSE Append(IF currentIndex >= 0
                      THEN slice(req.imageHistory, currentIndex + 1)
                      ELSE req.imageHistory,
                      newHistoryItem)

\* the transition of handleGenerate after `await editImage(formData)` returned
generateReturn(req, result, outcome) ==
  /\ UNCHANGED <<blobVars, storeVars, retry, preview>>
  /\ stalled' = {s \in stalled : s.req # req}
  /\ BagIn(req, inflight)
  /\    IF result.success /\ result.data # 0
        THEN /\ nextId < MaxIds
             /\ LET newHistoryItem ==
                      createHistoryItem([mime |-> "png", data |-> result.data],
                                        req.prompt, FALSE)
                    updated == updatedHistory(variant, req, newHistoryItem)
                IN /\ outputImage' = [mime |-> "none", data |-> result.data]
                   /\ status' = "success"
                   /\ imageHistory' = updated
                   /\ currentHistoryId' = newHistoryItem.id
                   /\ storage' = saveHistory(storage, updated, outcome)
             /\ nextId' = nextId + 1
                        /\ lastOp' = IF lastOp.op = "generate" /\ req = Request
                           THEN [lastOp EXCEPT !.op = "generated"]
                           ELSE NoOp
        ELSE /\ outcome = "ok"
             /\ status' = "error"
             /\ lastOp' = NoOp
             /\ UNCHANGED <<outputImage, imageHistory, currentHistoryId,
                            storage, nextId>>
  /\ inflight' = inflight (-) SetToBag({req})
  /\ UNCHANGED <<variant, mounted, imageFile, prompt, reading, now>>

\* the catch block of the transition: fetch, resizeImage or editImage threw
generateThrow(req) ==
  /\ UNCHANGED <<blobVars, storeVars, retry, preview>>
  /\ stalled' = {s \in stalled : s.req # req}
  /\ BagIn(req, inflight)
  /\ status' = "error"
  /\ lastOp' = NoOp
  /\ inflight' = inflight (-) SetToBag({req})
  /\ UNCHANGED <<variant, mounted, imageFile, prompt, outputImage,
                 imageHistory, currentHistoryId, storage, reading, nextId,
                 now>>

\* what the call handleRevert(historyId) is left with by the call before it,
\* when that was handleRevert(historyId) too
Once(historyId) ==
  IF lastOp.op = "revert" /\ lastOp.id = historyId
  THEN <<imageHistory, currentHistoryId>>
  ELSE <<>>

\* historyItem of handleRevert was found
revertFound(h, historyId) == findIndex(h, historyId) # -1

\* newHistory without the slice: the items after the target stay
revertHistory_NoTruncate(h, historyId) == h

\* newHistory with slice(0, revertIndex): the target itself is cut off
revertHistory_OffByOne(h, historyId) == slice(h, findIndex(h, historyId))

\* newHistory that also drops the oldest item in front of the target
revertHistory_DropOldest(h, historyId) ==
  SubSeq(h, Min(2, findIndex(h, historyId) + 1), findIndex(h, historyId) + 1)

\* newHistory of handleRevert
revertHistory(h, historyId) == slice(h, findIndex(h, historyId) + 1)

\* outputImage of handleRevert: the png and jpeg data-URI prefixes are removed
revertOutput(imageData) ==
  IF imageData.mime \in {"png", "jpeg"}
  THEN [imageData EXCEPT !.mime = "none"]
  ELSE imageData

\* handleRevert with the state update placed before the early return
handleRevert_AbsentResets(historyId, outcome) ==
  /\ UNCHANGED <<blobVars, storeVars, asyncVars>>
  /\ mounted
  /\ imageFile # NoFile
  /\ IF ~revertFound(imageHistory, historyId)
     THEN /\ outcome = "ok"
          /\ status' = "success"
          /\ currentHistoryId' = historyId
          /\ lastOp' = [NoOp EXCEPT !.op = "revert", !.id = historyId,
                                    !.before = imageHistory,
                                    !.pre = <<currentHistoryId, status,
                                              outputImage, storage>>,
                                    !.once = Once(historyId)]
          /\ UNCHANGED <<outputImage, imageHistory, storage, inflight>>
     ELSE LET newHistory == revertHistory(imageHistory, historyId)
              historyItem == imageHistory[findIndex(imageHistory, historyId) + 1]
          IN /\ outputImage' = revertOutput(historyItem.imageData)
             /\ currentHistoryId' = historyId
             /\ imageHistory' = newHistory
             /\ status' = "success"
             /\ storage' = saveHistory(storage, newHistory, outcome)
             /\ UNCHANGED inflight
             /\ lastOp' = [NoOp EXCEPT !.op = "revert", !.id = historyId,
                                       !.found = TRUE, !.before = imageHistory,
                                       !.outcome = outcome,
                                       !.pre = IF outcome = "denied"
                                               THEN <<storage>> ELSE <<>>,
                                       !.once = Once(historyId)]
  /\ UNCHANGED <<variant, mounted, imageFile, prompt, reading,
                 nextId, now>>

\* handleRevert, handed to the history components that Home renders next to
\* the image; it is modelled for the id of every entry and for one id that
\* names no entry: the handler only compares ids for equality, so one absent
\* id stands for all of them
handleRevert(historyId, outcome) ==
  /\ UNCHANGED <<blobVars, storeVars, asyncVars>>
  /\ mounted
  /\ imageFile # NoFile
  /\ IF ~revertFound(imageHistory, historyId)
     THEN /\ outcome = "ok"
          /\ lastOp' = [NoOp EXCEPT !.op = "revert", !.id = historyId,
                                    !.before = imageHistory,
                                    !.pre = <<currentHistoryId, status,
                                              outputImage, storage>>,
                                    !.once = Once(historyId)]
          /\ UNCHANGED <<outputImage, currentHistoryId, imageHistory, status,
                         storage, inflight>>
     ELSE LET newHistory == revertHistory(imageHistory, historyId)
              historyItem == imageHistory[findIndex(imageHistory, historyId) + 1]
          IN /\ outputImage' = revertOutput(historyItem.imageData)
             /\ currentHistoryId' = historyId
             /\ imageHistory' = newHistory
             /\ status' = "success"
             /\ storage' = saveHistory(storage, newHistory, outcome)
             /\ UNCHANGED inflight
             /\ lastOp' = [NoOp EXCEPT !.op = "revert", !.id = historyId,
                                       !.found = TRUE, !.before = imageHistory,
                                       !.outcome = outcome,
                                       !.pre = IF outcome = "denied"
                                               THEN <<storage>> ELSE <<>>,
                                       !.once = Once(historyId)]
  /\ UNCHANGED <<variant, mounted, imageFile, prompt, reading,
                 nextId, now>>

\* handleClear of part_004
handleClear(outcome) ==
  /\ UNCHANGED <<blobVars, storeVars, asyncVars>>
  /\ mounted
  /\ variant = "part_004"
  /\ imageFile # NoFile
  /\ imageFile' = NoFile
  /\ prompt' = <<>>
  /\ outputImage' = NoImage
  /\ status' = "idle"
  /\ imageHistory' = <<>>
  /\ currentHistoryId' = Null
  /\ storage' = clearHistory(storage, outcome)
  /\ UNCHANGED inflight
  /\ lastOp' = NoOp
  /\ UNCHANGED <<variant, mounted, reading, nextId, now>>

\* handleClearHistory of part_004
handleClearHistory(outcome) ==
  /\ UNCHANGED <<blobVars, storeVars, asyncVars>>
  /\ mounted
  /\ variant = "part_004"
  /\ imageFile # NoFile
  /\ Len(imageHistory) > 0
  /\ imageHistory' = <<>>
  /\ currentHistoryId' = Null
  /\ outputImage' = NoImage
  /\ storage' = clearHistory(storage, outcome)
  /\ UNCHANGED inflight
  /\ lastOp' = NoOp
  /\ UNCHANGED <<variant, mounted, imageFile, prompt, status, reading, nextId, now>>

\* handleDownload when downloadBase64Image returned false
handleDownloadFailed ==
  /\ UNCHANGED <<blobVars, storeVars, asyncVars>>
  /\ mounted
  /\ imageFile # NoFile
  /\ currentHistoryId # Null /\ Len(imageHistory) > 0
  /\ revertFound(imageHistory, currentHistoryId)
  /\ ~imageHistory[findIndex(imageHistory, currentHistoryId) + 1].isOriginal
  /\ status' = "error"
  /\ lastOp' = NoOp
  /\ UNCHANGED <<variant, mounted, imageFile, prompt, outputImage,
                 imageHistory, currentHistoryId, storage, reading, inflight,
                 nextId, now>>

Next ==
  \/ \E access \in BOOLEAN : Hydrate(access)
  \/ \E file \in Files : handleImageSelect(file)
  \/ \E file \in Files, outcome \in StorageOutcomes : readerOnload(file, outcome)
  \/ \E p \in Prompts : handlePromptChange(p)
  \/ handleGenerate
  \/ \E req \in BagToSet(inflight), result \in Results,
        outcome \in StorageOutcomes : generateReturn(req, result, outcome)
  \/ \E req \in BagToSet(inflight) : generateThrow(req)
  \/ \E historyId \in Ids(imageHistory) \cup {nextId + 1},
        outcome \in StorageOutcomes : handleRevert(historyId, outcome)
  \/ \E outcome \in StorageOutcomes : handleClear(outcome)
  \/ \E outcome \in StorageOutcomes : handleClearHistory(outcome)
  \/ handleDownloadFailed

\* -------------------------------------------------------- BlobURLManager
\* sources handed to the manager: File objects by name, size and lastModified,
\* a plain Blob by size and type
Sources ==
  {[kind |-> "file", name |-> "a", size |-> 1, type |-> "png", lastModified |-> 1],
   [kind |-> "blob", name |-> "", size |-> 1, type |-> "png", lastModified |-> 0]}

\* a url the manager never created
ExternalURL == 0

\* createSourceKey: the parts the template string joins
createSourceKey(source, t) ==
  IF source.kind = "file"
  THEN [prefix |-> "file", name |-> source.name, size |-> source.size,
        type |-> "", time |-> source.lastModified]
  ELSE [prefix |-> "blob", name |-> "", size |-> source.size,
        type |-> source.type, time |-> t]

Put(f, k, v) == [x \in DOMAIN f \cup {k} |-> IF x = k THEN v ELSE f[x]]
Drop(f, k) == [x \in DOMAIN f \ {k} |-> f[x]]

\* the manager's fields and the platform's live URLs, as one value
Registry == [urlMap |-> urlMap, sourceKeyMap |-> sourceKeyMap, platform |-> platform]

\* the lookup that never finds the url of a key
existingURL_Never(reg, sourceKey) == ExternalURL

\* the url getOrCreateURL finds for a key, ExternalURL when it finds none
existingURL(reg, sourceKey) ==
  IF sourceKey \in DOMAIN reg.sourceKeyMap /\ reg.sourceKeyMap[sourceKey] \in DOMAIN reg.urlMap
  THEN reg.sourceKeyMap[sourceKey]
  ELSE ExternalURL

\* getOrCreateURL that reuses an entry without counting the new reference
getOrCreateURLRegistry_NoIncrement(reg, source, t, fresh) ==
  LET sourceKey == createSourceKey(source, t)
      existing == existingURL(reg, sourceKey)
  IN IF existing # ExternalURL
     THEN reg
     ELSE [urlMap |-> Put(reg.urlMap, fresh,
                          [refCount |-> 1, sourceKey |-> sourceKey, createdAt |-> t]),
           sourceKeyMap |-> Put(reg.sourceKeyMap, sourceKey, fresh),
           platform |-> reg.platform \cup {fresh}]

\* getOrCreateURL that does not record the new url under its source key
getOrCreateURLRegistry_NoKeyMap(reg, source, t, fresh) ==
  LET sourceKey == createSourceKey(source, t)
      existing == existingURL(reg, sourceKey)
  IN IF existing # ExternalURL
     THEN [reg EXCEPT !.urlMap =
             [reg.urlMap EXCEPT ![existing].refCount = @ + 1]]
     ELSE [urlMap |-> Put(reg.urlMap, fresh,
                          [refCount |-> 1, sourceKey |-> sourceKey, createdAt |-> t]),
           sourceKeyMap |-> reg.sourceKeyMap,
           platform |-> reg.platform \cup {fresh}]

\* getOrCreateURL: the registry afterwards; fresh is what URL.createObjectURL
\* returns if it is called
getOrCreateURLRegistry(reg, source, t, fresh) ==
  LET sourceKey == createSourceKey(source, t)
      existing == existingURL(reg, sourceKey)
  IN IF existing # ExternalURL
     THEN [reg EXCEPT !.urlMap =
             [reg.urlMap EXCEPT ![existing].refCount = @ + 1]]
     ELSE [urlMap |-> Put(reg.urlMap, fresh,
                          [refCount |-> 1, sourceKey |-> sourceKey, createdAt |-> t]),
           sourceKeyMap |-> Put(reg.sourceKeyMap, sourceKey, fresh),
           platform |-> reg.platform \cup {fresh}]

\* getOrCreateURL: the url returned
getOrCreateURLResult(reg, source, t, fresh) ==
  LET existing == existingURL(reg, createSourceKey(source, t))
  IN IF existing # ExternalURL THEN existing ELSE fresh

\* revokeURL that leaves an entry alone while it is referenced more than once
revokeURLRegistry_OnlyIdle(reg, url, ok) ==
  IF url \notin DOMAIN reg.urlMap THEN reg
  ELSE IF ok /\ reg.urlMap[url].refCount <= 1
       THEN [urlMap |-> Drop(reg.urlMap, url),
             sourceKeyMap |-> Drop(reg.sourceKeyMap, reg.urlMap[url].sourceKey),
             platform |-> reg.platform \ {url}]
       ELSE reg

\* revokeURL; ok is whether URL.revokeObjectURL returns rather than throws
revokeURLRegistry(reg, url, ok) ==
  IF url \notin DOMAIN reg.urlMap THEN reg
  ELSE IF ok
       THEN [urlMap |-> Drop(reg.urlMap, url),
             sourceKeyMap |-> Drop(reg.sourceKeyMap, reg.urlMap[url].sourceKey),
             platform |-> reg.platform \ {url}]
       ELSE reg

\* releaseURL that takes a missing entry for one with no references yet
releaseURLRegistry_NoGuard(reg, url, ok) ==
  IF url \notin DOMAIN reg.urlMap
  THEN [reg EXCEPT !.urlMap =
          Put(reg.urlMap, url,
              [refCount |-> -1,
               sourceKey |-> [prefix |-> "", name |-> "", size |-> 0,
                              type |-> "", time |-> 0],
               createdAt |-> 0])]
  ELSE LET released == [reg EXCEPT !.urlMap =
                          [reg.urlMap EXCEPT ![url].refCount = @ - 1]]
       IN IF released.urlMap[url].refCount <= 0
          THEN revokeURLRegistry(released, url, ok)
          ELSE released

releaseURLRegistry(reg, url, ok) ==
  IF url \notin DOMAIN reg.urlMap THEN reg
  ELSE LET released == [reg EXCEPT !.urlMap =
                          [reg.urlMap EXCEPT ![url].refCount = @ - 1]]
       IN IF released.urlMap[url].refCount <= 0
          THEN revokeURLRegistry(released, url, ok)
          ELSE released

getRefCount(reg, url) ==
  IF url \in DOMAIN reg.urlMap THEN reg.urlMap[url].refCount ELSE 0

isManaged(reg, url) == url \in DOMAIN reg.urlMap

\* urlsToRevoke that looks for a positive count: no released url is swept
urlsToRevoke_Live(reg, t, maxAge) ==
  {url \in DOMAIN reg.urlMap :
     reg.urlMap[url].refCount > 0 /\ (t - reg.urlMap[url].createdAt) > maxAge}

\* urlsToRevoke that does not look at the count: every old url is swept
urlsToRevoke_AnyCount(reg, t, maxAge) ==
  {url \in DOMAIN reg.urlMap : (t - reg.urlMap[url].createdAt) > maxAge}

\* urlsToRevoke of cleanup
urlsToRevoke(reg, t, maxAge) ==
  {url \in DOMAIN reg.urlMap :
     reg.urlMap[url].refCount <= 0 /\ (t - reg.urlMap[url].createdAt) > maxAge}

RECURSIVE revokeAll(_, _, _)
revokeAll(reg, urls, failing) ==
  IF urls = {} THEN reg
  ELSE LET url == CHOOSE u \in urls : TRUE
       IN revokeAll(revokeURLRegistry(reg, url, url \notin failing),
                    urls \ {url}, failing)

\* cleanup(maxAge); failing are the urls whose platform revoke throws
cleanupRegistry(reg, t, maxAge, failing) ==
  revokeAll(reg, urlsToRevoke(reg, t, maxAge), failing)

\* dispose
disposeRegistry(reg, failing) ==
  [urlMap |-> <<>>, sourceKeyMap |-> <<>>,
   platform |-> reg.platform \ (DOMAIN reg.urlMap \ failing)]

\* how a call of the manager ended: it returned or it threw; registry is the
\* registry after it
Ended(threw, reg) == [threw |-> threw, registry |-> reg]

\* the try block of revokeURL: the platform revoke, then the two deletions
revokeURLTry(reg, url, ok) ==
  IF ok THEN Ended(FALSE, revokeURLRegistry(reg, url, TRUE))
  ELSE Ended(TRUE, reg)

\* revokeURL without its catch block
revokeURLCall_NoCatch(reg, url, ok) ==
  IF url \notin DOMAIN reg.urlMap THEN Ended(FALSE, reg)
  ELSE revokeURLTry(reg, url, ok)

\* revokeURL(url): what the try block throws is caught and logged
revokeURLCall(reg, url, ok) ==
  IF url \notin DOMAIN reg.urlMap THEN Ended(FALSE, reg)
  ELSE LET tried == revokeURLTry(reg, url, ok)
       IN IF tried.threw THEN Ended(FALSE, tried.registry) ELSE tried

\* releaseURL(url): nothing of its own catches what revokeURL throws
releaseURLCall(reg, url, ok) ==
  IF url \notin DOMAIN reg.urlMap THEN Ended(FALSE, reg)
  ELSE LET released == [reg EXCEPT !.urlMap =
                          [reg.urlMap EXCEPT ![url].refCount = @ - 1]]
       IN IF released.urlMap[url].refCount <= 0
          THEN revokeURLCall(released, url, ok)
          ELSE Ended(FALSE, released)

\* urlsToRevoke.forEach(url => this.revokeURL(url)): a callback that throws
\* ends the loop
RECURSIVE forEachRevoke(_, _, _)
forEachRevoke(reg, urls, failing) ==
  IF urls = {} THEN Ended(FALSE, reg)
  ELSE LET url == CHOOSE u \in urls : TRUE
           call == revokeURLCall(reg, url, url \notin failing)
       IN IF call.threw THEN call
          ELSE forEachRevoke(call.registry, urls \ {url}, failing)

\* cleanup(maxAge)
cleanupCall(reg, t, maxAge, failing) ==
  forEachRevoke(reg, urlsToRevoke(reg, t, maxAge), failing)

\* dispose(): each platform revoke has its own try block
disposeCall(reg, failing) == Ended(FALSE, disposeRegistry(reg, failing))

SetRegistry(reg) ==
  /\ urlMap' = reg.urlMap
  /\ sourceKeyMap' = reg.sourceKeyMap
  /\ platform' = reg.platform

\* getOrCreateURL and releaseURL calls made so far
RECURSIVE AcquiredUpTo(_)
AcquiredUpTo(i) == IF i = 0 THEN 0 ELSE calls[i].acquired + AcquiredUpTo(i - 1)

Acquired == AcquiredUpTo(Len(calls))

RECURSIVE ReleasedUpTo(_)
ReleasedUpTo(i) == IF i = 0 THEN 0 ELSE calls[i].released + ReleasedUpTo(i - 1)

Released == ReleasedUpTo(Len(calls))

getOrCreateURL(source) ==
  /\ UNCHANGED <<histVars, asyncVars>>
  /\ ret' = NoCall
  /\ LET fresh == nextUrl + 1
         url == getOrCreateURLResult(Registry, source, now, fresh)
     IN /\ Acquired < MaxAcquires
        /\ SetRegistry(getOrCreateURLRegistry(Registry, source, now, fresh))
        /\ nextUrl' = IF url = fresh THEN fresh ELSE nextUrl
        /\ calls' = IF url = fresh
                    THEN Append(calls, [source |-> source, acquired |-> 1,
                                        released |-> 0])
                    ELSE [calls EXCEPT ![url].acquired = @ + 1]
  /\ UNCHANGED now

releaseURL(url, ok) ==
  /\ UNCHANGED <<histVars, asyncVars>>
  /\ ret' = NoCall
  /\ url \in 1..nextUrl
  /\ Released < MaxReleases
  /\ ok \/ (url \in DOMAIN urlMap /\ urlMap[url].refCount <= 1)
  /\ SetRegistry(releaseURLRegistry(Registry, url, ok))
  /\ calls' = [calls EXCEPT ![url].released = @ + 1]
  /\ UNCHANGED <<nextUrl, now>>

\* releaseURL on a url that was created outside the manager
releaseExternalURL ==
  /\ UNCHANGED <<histVars, asyncVars>>
  /\ ret' = NoCall
  /\ SetRegistry(releaseURLRegistry(Registry, ExternalURL, TRUE))
  /\ UNCHANGED <<nextUrl, calls, now>>

revokeURL(url, ok) ==
  /\ UNCHANGED <<histVars, asyncVars>>
  /\ ret' = NoCall
  /\ url \in 0..nextUrl
  /\ ok \/ url \in DOMAIN urlMap
  /\ SetRegistry(revokeURLRegistry(Registry, url, ok))
  /\ UNCHANGED <<nextUrl, calls, now>>

\* revokeURL(url) on a managed url, by a caller that looks at the manager
\* afterwards: ret keeps the url, its refCount and source key before the call,
\* and whether the platform revoke returned or threw
callRevokeURL(url, ok) ==
  /\ UNCHANGED <<histVars, asyncVars>>
  /\ url \in DOMAIN urlMap
  /\ SetRegistry(revokeURLCall(Registry, url, ok).registry)
  /\ ret' = [NoCall EXCEPT !.op = "revokeURL", !.arg = <<url>>,
                           !.threw = revokeURLCall(Registry, url, ok).threw,
                           !.outcome = IF ok THEN "ok" ELSE "threw",
                           !.pre = <<urlMap[url].refCount,
                                     urlMap[url].sourceKey>>]
  /\ UNCHANGED <<nextUrl, calls, now>>

\* releaseURL(url), cleanup() and dispose() by a caller that sees how the call
\* ended: ret.threw is whether it threw, ret.outcome what the platform did
callReleaseURL(url, ok) ==
  /\ UNCHANGED <<histVars, asyncVars>>
  /\ url \in DOMAIN urlMap
  /\ Released < MaxReleases
  /\ LET call == releaseURLCall(Registry, url, ok)
     IN /\ SetRegistry(call.registry)
        /\ ret' = [NoCall EXCEPT !.op = "releaseURL", !.threw = call.threw,
                                 !.arg = <<url>>,
                                 !.outcome = IF ok THEN "ok" ELSE "threw"]
  /\ calls' = [calls EXCEPT ![url].released = @ + 1]
  /\ UNCHANGED <<nextUrl, now>>

callCleanup(failing) ==
  /\ UNCHANGED <<histVars, asyncVars>>
  /\ now % CLEANUP_INTERVAL = 0
  /\ failing \subseteq urlsToRevoke(Registry, now, DEFAULT_MAX_AGE)
  /\ LET call == cleanupCall(Registry, now, DEFAULT_MAX_AGE, failing)
     IN /\ SetRegistry(call.registry)
        /\ ret' = [NoCall EXCEPT !.op = "cleanup", !.threw = call.threw,
                                 !.arg = <<failing>>,
                                 !.outcome = IF failing = {} THEN "ok" ELSE "threw"]
  /\ UNCHANGED <<nextUrl, calls, now>>

callDispose(failing) ==
  /\ UNCHANGED <<histVars, asyncVars>>
  /\ failing \subseteq DOMAIN urlMap
  /\ LET call == disposeCall(Registry, failing)
     IN /\ SetRegistry(call.registry)
        /\ ret' = [NoCall EXCEPT !.op = "dispose", !.threw = call.threw,
                                 !.arg = <<failing>>,
                                 !.outcome = IF failing = {} THEN "ok" ELSE "threw"]
  /\ UNCHANGED <<nextUrl, calls, now>>

\* the setInterval callback: cleanup() with the default maxAge
cleanup(failing) ==
  /\ UNCHANGED <<histVars, asyncVars>>
  /\ ret' = NoCall
  /\ now % CLEANUP_INTERVAL = 0
  /\ failing \subseteq urlsToRevoke(Registry, now, DEFAULT_MAX_AGE)
  /\ SetRegistry(cleanupRegistry(Registry, now, DEFAULT_MAX_AGE, failing))
  /\ UNCHANGED <<nextUrl, calls, now>>

dispose(failing) ==
  /\ UNCHANGED <<histVars, asyncVars>>
  /\ ret' = NoCall
  /\ failing \subseteq DOMAIN urlMap
  /\ SetRegistry(disposeRegistry(Registry, failing))
  /\ UNCHANGED <<nextUrl, calls, now>>

\* time passes: the clock moves on by the default maxAge, a multiple of the
\* timer's period
clockTick ==
  /\ UNCHANGED <<histVars, asyncVars>>
  /\ ret' = NoCall
  /\ now < MaxTicks * DEFAULT_MAX_AGE
  /\ now' = now + DEFAULT_MAX_AGE
  /\ UNCHANGED blobVars

NextBlob ==
  \/ \E source \in Sources : getOrCreateURL(source)
  \/ \E url \in 1..MaxAcquires, ok \in BOOLEAN : releaseURL(url, ok)
  \/ releaseExternalURL
  \/ \E url \in 0..MaxAcquires, ok \in BOOLEAN : revokeURL(url, ok)
  \/ \E failing \in SUBSET (1..MaxAcquires) : cleanup(failing)
  \/ \E failing \in SUBSET (1..MaxAcquires) : dispose(failing)
  \/ clockTick

vars == <<histVars, blobVars, storeVars, asyncVars, now>>

Spec == Init /\ [][Next]_vars

InitBlob == Init /\ variant = "page" /\ storage = NoStorage

SpecBlob == InitBlob /\ [][NextBlob]_vars

\* runs made of getOrCreateURL and releaseURL calls only, at any times, the
\* platform revoking without error
NextRefs ==
  \/ \E source \in Sources : getOrCreateURL(source)
  \/ \E url \in 1..MaxAcquires : releaseURL(url, TRUE)
  \/ releaseExternalURL
  \/ clockTick

SpecRefs == InitBlob /\ [][NextRefs]_vars

\* the manager with callers that look at it after a call
NextForce ==
  \/ NextBlob
  \/ \E url \in 1..MaxAcquires, ok \in BOOLEAN : callRevokeURL(url, ok)
  \/ \E url \in 1..MaxAcquires, ok \in BOOLEAN : callReleaseURL(url, ok)
  \/ \E failing \in SUBSET (1..MaxAcquires) : callCleanup(failing)
  \/ \E failing \in SUBSET (1..MaxAcquires) : callDispose(failing)

SpecForce == InitBlob /\ [][NextForce]_vars

\* the interval timer keeps firing and the clock keeps running
TimerFires == \E failing \in SUBSET (1..MaxAcquires) : cleanup(failing)

\* the timer callback in which no platform revoke throws: the platform does
\* not fail for ever
SweepReturns == cleanup({})

FairSpecBlob ==
  /\ InitBlob
  /\ [][NextBlob]_vars
  /\ WF_vars(clockTick)
  /\ WF_vars(TimerFires)
  /\ WF_vars(SweepReturns)

\* ----------------------------------------------- historyUtils, called directly
\* lists passed to saveHistory: items 1..n as createHistoryItem makes them
Items(n) ==
  [i \in 1..n |-> [id |-> i, imageData |-> [mime |-> "png", data |-> 1],
                   prompt |-> <<"a">>, timestamp |-> 0, isOriginal |-> i = 1]]

\* their lengths: around zero and around the two retention limits
HistoryLengths ==
  (0..MaxOver)
  \cup (REDUCED_HISTORY_ITEMS..(REDUCED_HISTORY_ITEMS + MaxOver))
  \cup (MAX_HISTORY_ITEMS..(MAX_HISTORY_ITEMS + MaxOver))

\* elements that JSON.parse can find in a stored array: two records that are
\* HistoryItems (the second without isOriginal), a record without prompt, a
\* record whose id is a number, null and a number
StoredElements ==
  {stringifyItem([id |-> 101, imageData |-> [mime |-> "jpeg", data |-> 1],
                  prompt |-> <<>>, timestamp |-> 0, isOriginal |-> TRUE]),
   JObject([id |-> JString(102), imageData |-> JString([mime |-> "png", data |-> 1]),
            prompt |-> JString(<<"a">>), timestamp |-> JNumber(0)]),
   JObject([id |-> JString(103), imageData |-> JString([mime |-> "png", data |-> 1]),
            timestamp |-> JNumber(0)]),
   JObject([id |-> JNumber(104), imageData |-> JString([mime |-> "png", data |-> 1]),
            prompt |-> JString(<<"a">>), timestamp |-> JNumber(0)]),
   JNull,
   JNumber(5)}

StoredArrays ==
  UNION {[1..n -> StoredElements] : n \in 0..MaxStored}

\* values the storage key can have when the functions are called: absent, a text that
\* is not JSON, JSON that is not an array, and arrays
StoredTexts ==
  {NoStorage, BadText, Text(JNull), Text(JNumber(5)),
   Text(JObject([id |-> JString(101)]))}
  \cup {Text(JArray(elements)) : elements \in StoredArrays}

\* the page is not mounted; the key holds any of these values
InitStore ==
  /\ InitHome
  /\ variant = "page"
  /\ storage \in StoredTexts

\* saveHistory(history); Array.prototype.slice copies, so the caller's list,
\* kept in imageHistory, is as it was passed
callSaveHistory(history, outcome) ==
  /\ LET call == saveHistoryCall(storage, history, outcome)
     IN /\ storage' = call.stored
        /\ ret' = [op |-> "save", threw |-> call.threw, value |-> call.value,
                   arg |-> history, outcome |-> outcome,
                   pre |-> IF outcome = "denied" THEN <<storage>> ELSE <<>>]
  /\ imageHistory' = history
  /\ UNCHANGED <<variant, mounted, imageFile, prompt, outputImage, status,
                 currentHistoryId, reading, inflight, nextId, lastOp>>
  /\ UNCHANGED <<blobVars, asyncVars, now>>

\* loadHistory(); ret keeps the list and the outcome of a saveHistory call
\* that it directly follows
callLoadHistory(access) ==
  /\ ret.op # "load"
  /\ LET call == loadHistoryCall(storage, access)
     IN ret' = [op |-> "load", threw |-> call.threw, value |-> call.value,
                arg |-> ret.arg, outcome |-> ret.outcome,
                pre |-> <<access>>]
  /\ UNCHANGED <<variant, mounted, imageFile, prompt, outputImage, status,
                 imageHistory, currentHistoryId, storage, reading, inflight,
                 nextId, lastOp>>
  /\ UNCHANGED <<blobVars, asyncVars, now>>

NextStore ==
  \/ \E n \in HistoryLengths, outcome \in StorageOutcomes :
       callSaveHistory(Items(n), outcome)
  \/ \E access \in BOOLEAN : callLoadHistory(access)

SpecStore == InitStore /\ [][NextStore]_vars

\* ------------------------------------------------------------- imageUtils
\* files by what validateImageFile finds: a valid image, a type that does not
\* start with image/, an image type that is not allowed, an empty file, a file
\* over 50 MB
FileKinds == {"valid", "notImage", "unsupported", "empty", "oversized"}

\* validateImageFile(file): the message of the error thrown, "" when none
validateImageFile(file) ==
  CASE file = "notImage" -> "Invalid file type"
    [] file = "unsupported" -> "Unsupported image type"
    [] file = "empty" -> "File is empty"
    [] file = "oversized" -> "File too large"
    [] OTHER -> ""

\* operation() is called in the try block of the loop. For resizeImage the
\* operation is _resizeImageCore(file), whose promise executor validates the
\* file and, when that throws, rejects and returns before it makes an Image
invoke(r) ==
  IF r.operation = "resize"
  THEN [r EXCEPT !.pc = "calling", !.invoked = @ + 1, !.validated = @ + 1,
                 !.decoded = IF validateImageFile(r.file) = "" THEN @ + 1 ELSE @]
  ELSE [r EXCEPT !.pc = "calling", !.invoked = @ + 1]

\* the throw after the loop
withRetryThrow(r) ==
  [r EXCEPT !.pc = "thrown",
            !.raised = Append(@, [name |-> "ImageProcessingError",
                                  originalError |-> r.lastError])]

\* the for statement: its condition, then the body up to the await
withRetryLoop(r) ==
  IF r.attempt <= r.maxRetries THEN invoke(r) ELSE withRetryThrow(r)

\* a catch block that keeps the error of the first attempt
withRetryCatch_FirstError(r, message) ==
  LET caught == [r EXCEPT !.lastError = IF r.attempt = 1
                                        THEN AttemptError(message, r.attempt)
                                        ELSE @,
                          !.settled = Append(@, message)]
  IN IF caught.attempt = caught.maxRetries
     THEN withRetryThrow(caught)
     ELSE [caught EXCEPT !.pc = "waiting"]

\* the catch block of the loop: break after the last attempt, else the delay
withRetryCatch(r, message) ==
  LET caught == [r EXCEPT !.lastError = AttemptError(message, r.attempt),
                          !.settled = Append(@, message)]
  IN IF caught.attempt = caught.maxRetries
     THEN withRetryThrow(caught)
     ELSE [caught EXCEPT !.pc = "waiting"]

\* the errors operation() can reject with: _resizeImageCore rejects a file
\* that fails validation with the validation error and nothing else
Rejections(r) ==
  IF r.operation = "resize"
  THEN IF validateImageFile(r.file) # ""
       THEN {validateImageFile(r.file)}
       ELSE {"Failed to load image for resizing", "Image resize timed out",
             "Failed to create blob from canvas"}
  ELSE {"operation failed", "operation timed out"}

\* whether operation() can resolve
Resolves(r) == r.operation = "resize" => validateImageFile(r.file) = ""

\* withRetry(operation, maxRetries) and resizeImage(file) up to the first await
callWithRetry(operation, file, maxRetries) ==
  /\ retry.pc = "idle"
  /\ retry' = withRetryLoop([NoRetry EXCEPT !.operation = operation,
                                            !.file = file,
                                            !.maxRetries = maxRetries,
                                            !.attempt = 1])
  /\ UNCHANGED <<histVars, blobVars, storeVars, stalled, preview, now>>

\* the promise of operation() settles: return await operation() returns its
\* value, or the catch block runs with the error
operationSettles(outcome) ==
  /\ retry.pc = "calling"
  /\ IF outcome = "resolved"
     THEN /\ Resolves(retry)
          /\ retry' = [retry EXCEPT !.pc = "returned",
                                    !.settled = Append(@, "resolved")]
     ELSE /\ outcome \in Rejections(retry)
          /\ retry' = withRetryCatch(retry, outcome)
  /\ UNCHANGED <<histVars, blobVars, storeVars, stalled, preview, now>>

\* how an attempt can end
Outcomes ==
  {"resolved", "operation failed", "operation timed out",
   "Failed to load image for resizing", "Image resize timed out",
   "Failed to create blob from canvas"}
  \cup {validateImageFile(file) : file \in FileKinds \ {"valid"}}

\* the delay of delay * attempt milliseconds is over: attempt++ and the loop
delayElapsed ==
  /\ retry.pc = "waiting"
  /\ retry' = withRetryLoop([retry EXCEPT !.pc = "calling", !.attempt = @ + 1])
  /\ UNCHANGED <<histVars, blobVars, storeVars, stalled, preview, now>>

NextRetry ==
  \/ \E maxRetries \in 0..MaxRetries : callWithRetry("operation", "", maxRetries)
  \/ \E file \in FileKinds : callWithRetry("resize", file, RESIZE_RETRIES)
  \/ \E outcome \in Outcomes : operationSettles(outcome)
  \/ delayElapsed

InitRetry == Init /\ variant = "page" /\ storage = NoStorage

SpecRetry == InitRetry /\ [][NextRetry]_vars

\* every operation settles and every delay timer fires
FairSpecRetry ==
  /\ InitRetry
  /\ [][NextRetry]_vars
  /\ WF_vars(\E outcome \in Outcomes : operationSettles(outcome))
  /\ WF_vars(delayElapsed)

\* ------------------------------------ generate transitions that keep waiting
\* the calls a generate transition awaits before it writes the status: the
\* image load of getImageDimensions and _resizeImageCore (decode), canvas.toBlob
\* of _resizeImageCore, and the server action
AwaitedCalls == {"decode", "toBlob", "editImage"}

\* the request is not waiting for a call that never completes
Unstalled(req) == \A s \in stalled : s.req # req

\* a call that the transition of req awaits never completes: the image fires
\* neither onload nor onerror, toBlob never calls back, or the server action
\* never resolves; for toBlob this is so in every attempt of resizeImage
callNeverCompletes(req, call) ==
  /\ BagIn(req, inflight)
  /\ Unstalled(req)
  /\ stalled' = stalled \cup {[req |-> req, call |-> call, attempt |-> 1]}
  /\ UNCHANGED <<histVars, blobVars, storeVars, retry, preview, now>>

\* the 30 second timer of _resizeImageCore rejects the attempt: withRetry
\* starts the next attempt, or after the last one throws, and the catch block
\* of the transition sets the status
blobTimeout(req) ==
  \E s \in stalled :
    /\ s.req = req
    /\ s.call = "toBlob"
    /\ IF s.attempt < RESIZE_RETRIES
       THEN /\ stalled' = (stalled \ {s}) \cup {[s EXCEPT !.attempt = @ + 1]}
            /\ UNCHANGED <<histVars, blobVars, storeVars, retry, preview, now>>
       ELSE generateThrow(req)

\* the awaited calls of a request that is not stalled complete
Settles ==
  \E req \in BagToSet(inflight) :
    /\ Unstalled(req)
    /\ \/ \E result \in Results, outcome \in StorageOutcomes :
             generateReturn(req, result, outcome)
       \/ generateThrow(req)

TimesOut == \E req \in BagToSet(inflight) : blobTimeout(req)

\* one session of the page: upload, prompt, generate, and what the awaited
\* calls do
NextGen ==
  \/ \E access \in BOOLEAN : Hydrate(access)
  \/ \E file \in Files : handleImageSelect(file)
  \/ \E file \in Files, outcome \in StorageOutcomes : readerOnload(file, outcome)
  \/ \E p \in Prompts : handlePromptChange(p)
  \/ handleGenerate
  \/ Settles
  \/ \E req \in BagToSet(inflight), call \in AwaitedCalls :
       callNeverCompletes(req, call)
  \/ TimesOut

\* calls that can complete do, and timers that are set fire
FairSpecGen ==
  /\ Init
  /\ [][NextGen]_vars
  /\ WF_vars(Settles)
  /\ WF_vars(TimesOut)

\* ----------------------------------------------------------- ImagePreview
\* the component of src/unnamed/part_000 with optimizeForContainer set, the
\* only caller of the manager in these runs; the platform revokes without
\* error

\* values of the src prop: object URLs and data URLs are optimised, others not
PreviewSrcs ==
  {[scheme |-> "blob", id |-> 1], [scheme |-> "data", id |-> 2],
   [scheme |-> "https", id |-> 3]}

\* what getBoundingClientRect can report for the container
ContainerSizes ==
  {[width |-> 100, height |-> 100], [width |-> 105, height |-> 100],
   [width |-> 200, height |-> 100]}

\* byte lengths canvas.toBlob can produce; two optimised files of the same
\* length made in the same millisecond have the same source key
OptimizedBytes == {1, 2}

Abs(x) == IF x < 0 THEN -x ELSE x

\* the File optimizeForDisplay resolves to: resizeImage names it after the
\* 'image.jpg' it was given and stamps it with Date.now()
optimizedFile(bytes, t) ==
  [kind |-> "file", name |-> "image_resized.jpg", size |-> bytes,
   type |-> "jpeg", lastModified |-> t]

\* what optimizeImage closes over: the render's src, containerSize and
\* managedOptimizedURL
Closure(p) ==
  [src |-> p.src, containerSize |-> p.containerSize,
   managedOptimizedURL |-> p.managedOptimizedURL]

\* the optimise effect, run after a render in which src or the container size
\* changed; p holds that render's state
optimizeEffect(p) ==
  IF p.containerSize.width = 0 \/ p.containerSize.height = 0 \/ p.isOptimizing
  THEN p
  ELSE IF /\ p.lastOptimizedSize # NoSize
          /\ Abs(p.containerSize.width - p.lastOptimizedSize.width) < 10
          /\ Abs(p.containerSize.height - p.lastOptimizedSize.height) < 10
  THEN p
  ELSE IF p.src.scheme \in {"blob", "data"}
  THEN [p EXCEPT !.timer = <<Closure(p)>>]
  ELSE [p EXCEPT !.managedOptimizedURL = Null, !.managedURLRef = Null,
                 !.lastOptimizedSize = NoSize]

\* the src-change effect, but for its releaseURL call
resetEffect(p) ==
  [p EXCEPT !.timer = <<>>, !.isOptimizing = FALSE, !.lastOptimizedSize = NoSize]

\* the component calls blobURLManager.releaseURL(url)
previewRelease(reg, url) == releaseURLCall(reg, url, TRUE).registry

\* first render and the effects after it: the container is not measured yet
mountPreview(src) ==
  /\ UNCHANGED <<histVars, stalled, retry>>
  /\ ret' = NoCall
  /\ preview.pc = "unmounted"
  /\ preview' = resetEffect(optimizeEffect(
                  [preview EXCEPT !.pc = "mounted", !.src = src]))
  /\ UNCHANGED <<blobVars, now>>

\* updateSizes, from the 10 ms timeout or a window resize event, and the
\* optimise effect after the render it causes
updateSizes(size) ==
  /\ UNCHANGED <<histVars, stalled, retry>>
  /\ ret' = NoCall
  /\ preview.pc = "mounted"
  /\ size # preview.containerSize
  /\ preview' = optimizeEffect([preview EXCEPT !.containerSize = size])
  /\ UNCHANGED <<blobVars, now>>

\* the parent passes another src: the optimise effect and then the src-change
\* effect run, both with the managedOptimizedURL of that render
srcChange(src) ==
  /\ UNCHANGED <<histVars, stalled, retry>>
  /\ ret' = NoCall
  /\ preview.pc = "mounted"
  /\ src # preview.src
  /\ LET managed == preview.managedOptimizedURL
         optimized == optimizeEffect([preview EXCEPT !.src = src])
     IN IF managed # Null
        THEN /\ SetRegistry(previewRelease(Registry, managed))
             /\ calls' = [calls EXCEPT ![managed].released = @ + 1]
             /\ preview' = [resetEffect(optimized) EXCEPT
                              !.managedOptimizedURL = Null,
                              !.managedURLRef = Null]
        ELSE /\ UNCHANGED <<urlMap, sourceKeyMap, platform, calls>>
             /\ preview' = resetEffect(optimized)
  /\ UNCHANGED <<nextUrl, now>>

\* the debounce timeout fires: optimizeImage runs up to its first await
optimizeImageStart ==
  /\ UNCHANGED <<histVars, stalled, retry>>
  /\ ret' = NoCall
  /\ preview.timer # <<>>
  /\ BagCardinality(preview.running) < MaxOptimizing
  /\ preview' = [preview EXCEPT
                   !.timer = <<>>,
                   !.isOptimizing = TRUE,
                   !.lastOptimizedSize = preview.timer[1].containerSize,
                   !.running = @ (+) SetToBag({preview.timer[1]})]
  /\ UNCHANGED <<blobVars, now>>

\* setState of a component that has unmounted does nothing
setManagedOptimizedURL(p, url) ==
  IF p.pc = "mounted"
  THEN [p EXCEPT !.managedOptimizedURL = url, !.isOptimizing = FALSE]
  ELSE p

\* optimizeImage: "Clean up previous managed URL"
optimizeImageReplaces(reg, closure) ==
  IF closure.managedOptimizedURL # Null
  THEN previewRelease(reg, closure.managedOptimizedURL)
  ELSE reg

\* fetch and optimizeForDisplay resolved: the rest of the try block and the
\* finally block of optimizeImage
optimizeImageResolve(closure, bytes) ==
  /\ UNCHANGED <<histVars, stalled, retry>>
  /\ ret' = NoCall
  /\ BagIn(closure, preview.running)
  /\ Acquired < MaxAcquires
  /\ LET optimized == optimizedFile(bytes, now)
         fresh == nextUrl + 1
         optimizedUrl == getOrCreateURLResult(Registry, optimized, now, fresh)
         created == getOrCreateURLRegistry(Registry, optimized, now, fresh)
         acquired == IF optimizedUrl = fresh
                     THEN Append(calls, [source |-> optimized, acquired |-> 1,
                                         released |-> 0])
                     ELSE [calls EXCEPT ![optimizedUrl].acquired = @ + 1]
         managed == closure.managedOptimizedURL
     IN /\ SetRegistry(optimizeImageReplaces(created, closure))
        /\ nextUrl' = IF optimizedUrl = fresh THEN fresh ELSE nextUrl
        /\ calls' = IF managed # Null
                    THEN [acquired EXCEPT ![managed].released = @ + 1]
                    ELSE acquired
        /\ preview' = [setManagedOptimizedURL(preview, optimizedUrl) EXCEPT
                         !.managedURLRef = optimizedUrl,
                         !.running = @ (-) SetToBag({closure})]
  /\ UNCHANGED now

\* fetch or optimizeForDisplay rejected: the catch block and the finally block
optimizeImageReject(closure) ==
  /\ UNCHANGED <<histVars, stalled, retry>>
  /\ ret' = NoCall
  /\ BagIn(closure, preview.running)
  /\ preview' = [setManagedOptimizedURL(preview, Null) EXCEPT
                   !.managedURLRef = Null,
                   !.running = @ (-) SetToBag({closure})]
  /\ UNCHANGED <<blobVars, now>>

\* the cleanup of the unmount effect
unmountPreview ==
  /\ UNCHANGED <<histVars, stalled, retry>>
  /\ ret' = NoCall
  /\ preview.pc = "mounted"
  /\ LET url == preview.managedURLRef
     IN IF url # Null
        THEN /\ SetRegistry(previewRelease(Registry, url))
             /\ calls' = [calls EXCEPT ![url].released = @ + 1]
        ELSE UNCHANGED <<urlMap, sourceKeyMap, platform, calls>>
  /\ preview' = [preview EXCEPT !.pc = "gone", !.timer = <<>>,
                                !.managedURLRef = Null]
  /\ UNCHANGED <<nextUrl, now>>

NextPreview ==
  \/ \E src \in PreviewSrcs : mountPreview(src)
  \/ \E size \in ContainerSizes : updateSizes(size)
  \/ \E src \in PreviewSrcs : srcChange(src)
  \/ optimizeImageStart
  \/ \E closure \in BagToSet(preview.running), bytes \in OptimizedBytes :
       optimizeImageResolve(closure, bytes)
  \/ \E closure \in BagToSet(preview.running) : optimizeImageReject(closure)
  \/ unmountPreview

InitPreview == Init /\ variant = "page" /\ storage = NoStorage

SpecPreview == InitPreview /\ [][NextPreview]_vars

\* ------------------------------------------------- properties of the history
\* C1: while a generate request is outstanding no second generate request
\* starts, whatever the user does in between: at most one request is in flight
C1_NoSecondGenerate == BagCardinality(inflight) <= 1

\* C2: a response that arrives after the history or the current id was changed
\* under its request (upload, clear, revert) is discarded: it changes neither
\* imageHistory nor currentHistoryId
C2_StaleResponseDiscarded ==
  [][\A req \in BagToSet(inflight), result \in Results, outcome \in StorageOutcomes :
       (/\ generateReturn(req, result, outcome)
        /\ (\/ req.imageHistory # imageHistory
            \/ req.currentHistoryId # currentHistoryId))
       => UNCHANGED <<imageHistory, currentHistoryId>>]_vars

\* the items a successful generate must leave when it follows revertTo(id) on
\* the history `before`: the target's prefix and one new item, which is current
AppendedAfterRevert(before, id) ==
  LET revertIndex == findIndex(before, id)
  IN /\ Len(imageHistory) = (revertIndex + 1) + 1
     /\ SubSeq(imageHistory, 1, revertIndex + 1) = SubSeq(before, 1, revertIndex + 1)
     /\ imageHistory[Len(imageHistory)].id \notin Ids(before)
     /\ currentHistoryId = imageHistory[Len(imageHistory)].id

\* C3 as stated: for every history and every id in it, a successful generate
\* right after revertTo(id) leaves the prefix ending at id plus the new item,
\* of length (index of id + 1) + 1, with the new item current
C3_GenerateAfterRevert ==
  lastOp.op = "generated" => AppendedAfterRevert(lastOp.before, lastOp.id)

\* C3 amended: the same, under the truncate-then-append policy of page.tsx, and
\* in the replace-in-place revision when id names the original item
C3_GenerateAfterRevertAppends ==
  (/\ lastOp.op = "generated"
   /\ \/ variant = "page"
      \/ lastOp.before[findIndex(lastOp.before, lastOp.id) + 1].isOriginal)
  => AppendedAfterRevert(lastOp.before, lastOp.id)

\* a generate completed right after a revert that cut items off
C3_Witness ==
  /\ lastOp.op = "generated"
  /\ findIndex(lastOp.before, lastOp.id) + 1 < Len(lastOp.before)
  /\ Len(imageHistory) = findIndex(lastOp.before, lastOp.id) + 2

\* C8: in every reachable state, a currentHistoryId that is not null is the id
\* of an item of imageHistory
C8_CurrentInHistory ==
  currentHistoryId # Null => currentHistoryId \in Ids(imageHistory)

\* a history of two items, the current one among them, after a generate
C8_Witness ==
  /\ Len(imageHistory) = 2
  /\ currentHistoryId = imageHistory[2].id
  /\ status = "success"
  /\ imageFile # NoFile

\* the prefix of the history a found revert was applied to, up to its target
RevertedPrefix ==
  SubSeq(lastOp.before, 1, findIndex(lastOp.before, lastOp.id) + 1)

\* C9 as stated: revertTo(id) with id present leaves the prefix ending at id,
\* makes id current and persists exactly that prefix
C9_RevertPersistsExactly ==
  (lastOp.op = "revert" /\ lastOp.found)
  => /\ imageHistory = RevertedPrefix
     /\ currentHistoryId = lastOp.id
     /\ storage = stringify(RevertedPrefix)

\* C9 amended: revertTo(id) with id present leaves the prefix ending at id and
\* makes id current; the storage key then holds the last 50 items of the
\* prefix, or its last 10 when the first write threw, or is absent when the
\* retry threw too, or is as before when removing the key threw as well
C9_RevertTruncates ==
  (lastOp.op = "revert" /\ lastOp.found)
  => /\ imageHistory = RevertedPrefix
     /\ currentHistoryId = lastOp.id
     /\ lastOp.outcome = "ok" =>
          storage = stringify(sliceLast(RevertedPrefix, MAX_HISTORY_ITEMS))
     /\ lastOp.outcome = "quota1" =>
          storage = stringify(sliceLast(RevertedPrefix, REDUCED_HISTORY_ITEMS))
     /\ lastOp.outcome = "quota2" => ~storage.present
     /\ lastOp.outcome = "denied" => storage = lastOp.pre[1]

\* a revert that cut items off and whose write succeeded
C9_Witness ==
  /\ lastOp.op = "revert"
  /\ lastOp.found
  /\ Len(imageHistory) < Len(lastOp.before)
  /\ currentHistoryId = lastOp.id
  /\ storage = stringify(imageHistory)

\* C10: revertTo(id) with an id that no item has changes nothing: imageHistory,
\* currentHistoryId, status, outputImage and the persisted list stay as they are
C10_RevertAbsentUnchanged ==
  (lastOp.op = "revert" /\ ~lastOp.found)
  => /\ imageHistory = lastOp.before
     /\ <<currentHistoryId, status, outputImage, storage>> = lastOp.pre

\* a revert to an absent id was made on a history that has items, while a
\* request was loading
C10_Witness ==
  /\ lastOp.op = "revert"
  /\ ~lastOp.found
  /\ Len(imageHistory) > 0
  /\ status = "loading"

\* C11: revertTo is idempotent: handleRevert(id) called right after
\* handleRevert(id) leaves the imageHistory and the currentHistoryId that the
\* first call left, whether or not id names an item
C11_RevertIdempotent ==
  (lastOp.op = "revert" /\ lastOp.once # <<>>)
  => <<imageHistory, currentHistoryId>> = lastOp.once

\* the same revert made twice in a row on an id that names an item, in a
\* session that has handed out more ids than the history holds
C11_Witness ==
  /\ lastOp.op = "revert"
  /\ lastOp.found
  /\ lastOp.once # <<>>
  /\ Len(imageHistory) >= 1
  /\ Len(imageHistory) < nextId
  /\ currentHistoryId = lastOp.id

\* C12: in every reachable state a history list that has items has exactly one
\* item with isOriginal = true, and that item is the first one
C12_OneOriginalAtHead ==
  Len(imageHistory) > 0
  => /\ imageHistory[1].isOriginal
     /\ \A i \in 2..Len(imageHistory) : ~imageHistory[i].isOriginal

\* ------------------------------------------- properties of the persistence
\* the array under the storage key, empty when there is none
Persisted ==
  IF storage.present /\ storage.valid /\ storage.value.t = "array"
  THEN storage.value.v
  ELSE <<>>

\* a stored element that has the shape of a HistoryItem: a record whose id,
\* imageData and prompt are strings and whose timestamp is a number
WellFormed(x) ==
  /\ x.t = "object"
  /\ {"id", "imageData", "prompt", "timestamp"} \subseteq DOMAIN x.v
  /\ x.v.id.t = "string"
  /\ x.v.imageData.t = "string"
  /\ x.v.prompt.t = "string"
  /\ x.v.timestamp.t = "number"

\* the well-formed elements of a stored array, in their order, as items
RECURSIVE ValidSubset(_)
ValidSubset(elements) ==
  IF elements = <<>> THEN <<>>
  ELSE (IF WellFormed(Head(elements))
        THEN <<parsedItem(Head(elements))>> ELSE <<>>)
       \o ValidSubset(Tail(elements))

\* s is what is left of h when items are dropped from its front
IsSuffix(s, h) ==
  /\ Len(s) <= Len(h)
  /\ s = SubSeq(h, Len(h) - Len(s) + 1, Len(h))

\* C13: loadHistory on a stored array with malformed elements (a wrong field
\* type, a missing field, null, a number) returns exactly the well-formed
\* elements in their order and does not throw
C13_MalformedDropped ==
  (/\ ret.op = "load"
   /\ ret.pre = <<TRUE>>
   /\ storage.present /\ storage.valid /\ storage.value.t = "array")
  => /\ ~ret.threw
     /\ ret.value = ValidSubset(storage.value.v)

\* C14: loadHistory right after a saveHistory whose first write succeeded
\* returns the items passed, in their order, the last 50 of them when there
\* are more
C14_RoundTrip ==
  (ret.op = "load" /\ ret.pre = <<TRUE>> /\ ret.outcome = "ok")
  => ret.value = sliceLast(ret.arg, MAX_HISTORY_ITEMS)

\* a list of more than 50 items was saved and then loaded
C14_Witness ==
  /\ ret.op = "load"
  /\ ret.pre = <<TRUE>>
  /\ ret.outcome = "ok"
  /\ Len(ret.arg) > MAX_HISTORY_ITEMS
  /\ Len(ret.value) = MAX_HISTORY_ITEMS
  /\ ret.value[1].id = Len(ret.arg) - MAX_HISTORY_ITEMS + 1

\* C15 as stated: after any sequence of saveHistory calls the persisted list
\* has at most 50 items and is a suffix of the list passed to the last call,
\* and that list is as it was passed
C15_PersistedSuffix ==
  ret.op = "save"
  => /\ Len(Persisted) <= MAX_HISTORY_ITEMS
     /\ IsSuffix(Persisted, stringify(ret.arg).value.v)
     /\ imageHistory = ret.arg

\* C15 amended: the same after every saveHistory call in which some
\* localStorage call returned; when every one of them threw, the storage key is
\* what it was before the call
C15_PersistedSuffixUnlessDenied ==
  ret.op = "save"
  => /\ imageHistory = ret.arg
     /\ IF ret.outcome = "denied"
        THEN storage = ret.pre[1]
        ELSE /\ Len(Persisted) <= MAX_HISTORY_ITEMS
             /\ IsSuffix(Persisted, stringify(ret.arg).value.v)
             /\ ret.outcome = "ok"
                  => storage = stringify(sliceLast(ret.arg, MAX_HISTORY_ITEMS))

\* a list of more than 50 items was saved over an older value: 50 are stored
C15_Witness ==
  /\ ret.op = "save"
  /\ ret.outcome = "ok"
  /\ Len(ret.arg) > MAX_HISTORY_ITEMS
  /\ Len(Persisted) = MAX_HISTORY_ITEMS
  /\ Persisted[MAX_HISTORY_ITEMS] = stringifyItem(ret.arg[Len(ret.arg)])

\* C16: saveHistory never throws to its caller; when the first write throws
\* and the retry goes through, the last 10 items are stored; when the retry
\* throws too, nothing is stored, or the key is untouched if removeItem threw
C16_RetryThenGiveUp ==
  ret.op = "save"
  => /\ ~ret.threw
     /\ imageHistory = ret.arg
     /\ ret.outcome = "quota1"
          => storage = stringify(sliceLast(ret.arg, REDUCED_HISTORY_ITEMS))
     /\ ret.outcome = "quota2" => storage = NoStorage
     /\ ret.outcome = "denied" => storage = ret.pre[1]

\* both writes of a list of more than 10 items threw and the call returned
C16_Witness ==
  /\ ret.op = "save"
  /\ ret.outcome = "quota2"
  /\ Len(ret.arg) > REDUCED_HISTORY_ITEMS
  /\ ~ret.threw
  /\ ~storage.present

\* C17: loadHistory never throws, and returns the empty list when the key is
\* absent, the text is not JSON, the value is not an array, or localStorage
\* itself throws
C17_LoadNeverThrows ==
  ret.op = "load"
  => /\ ~ret.threw
     /\ (\/ ret.pre = <<FALSE>>
         \/ ~storage.present
         \/ ~storage.valid
         \/ storage.value.t # "array")
        => ret.value = <<>>

\* loadHistory was called on a text that JSON.parse rejects
C17_Witness ==
  /\ ret.op = "load"
  /\ ret.pre = <<TRUE>>
  /\ storage = BadText
  /\ ret.value = <<>>
  /\ ~ret.threw

C28_ReplaceInPlace ==
  [][\A req \in BagToSet(inflight), result \in Results,
        outcome \in StorageOutcomes :
       (/\ variant = "part_004"
        /\ result.success /\ result.data # 0
        /\ generateReturn(req, result, outcome)
        /\ revertFound(req.imageHistory, req.currentHistoryId))
       => LET at == findIndex(req.imageHistory, req.currentHistoryId) + 1
          IN /\ currentHistoryId' \notin Ids(req.imageHistory)
             /\ ~imageHistory'[Len(imageHistory')].isOriginal
             /\ IF ~req.imageHistory[at].isOriginal
                THEN /\ Len(imageHistory') = Len(req.imageHistory)
                     /\ \A i \in 1..Len(req.imageHistory) :
                          i # at => imageHistory'[i] = req.imageHistory[i]
                     /\ imageHistory'[at].id = currentHistoryId'
                ELSE /\ Len(imageHistory') = at + 1
                     /\ \A i \in 1..at : imageHistory'[i] = req.imageHistory[i]
                     /\ imageHistory'[at + 1].id = currentHistoryId']_vars

\* the replace-in-place revision after two generates from one upload: the
\* second generated item took the place of the first
C28_Witness ==
  /\ variant = "part_004"
  /\ lastOp = NoOp
  /\ Len(imageHistory) = 2
  /\ imageHistory[1].isOriginal
  /\ imageHistory[1].id = 1
  /\ imageHistory[2].id = 3
  /\ currentHistoryId = 3
  /\ status = "success"

\* C30 as stated: once the first write of saveHistory has failed, the value
\* persisted before is not kept: on return the key holds exactly the last ten
\* items of the list passed, or nothing
C30_OldValueNeverKept ==
  (ret.op = "save" /\ ret.outcome # "ok")
  => \/ storage = stringify(sliceLast(ret.arg, REDUCED_HISTORY_ITEMS))
     \/ storage = NoStorage

\* C30 amended: after a failed first write the key holds the last ten items
\* when the second write succeeds, nothing when removeItem succeeds and the
\* second write fails, and the value it had before the call when removeItem
\* throws as well
C30_OldValueKeptOnlyIfRemoveThrows ==
  (ret.op = "save" /\ ret.outcome # "ok")
  => CASE ret.outcome = "quota1" ->
            storage = stringify(sliceLast(ret.arg, REDUCED_HISTORY_ITEMS))
       [] ret.outcome = "quota2" -> storage = NoStorage
       [] OTHER -> storage = ret.pre[1]

\* a list longer than ten was saved over a stored array, the first write
\* failed and the second did not: its last ten items are stored
C30_Witness ==
  /\ ret.op = "save"
  /\ ret.outcome = "quota1"
  /\ Len(ret.arg) > REDUCED_HISTORY_ITEMS
  /\ storage = stringify(sliceLast(ret.arg, REDUCED_HISTORY_ITEMS))
  /\ storage # stringify(ret.arg)

\* C24: every generate request that sets the status to 'loading' eventually
\* leaves it: the status becomes 'success' or 'error', also when an awaited
\* decode, resize or network call never completes, which a timeout then ends
C24_LoadingEventuallyLeft ==
  (status = "loading") ~> (status \in {"success", "error"})

\* C25: a validation error is reported after one attempt: the operation that
\* failed validation is not invoked again, and no decode is started for the
\* invalid file
C25_ValidationNotRetried ==
  (retry.operation = "resize" /\ validateImageFile(retry.file) # "")
  => /\ retry.invoked <= 1
     /\ retry.validated <= 1
     /\ retry.decoded = 0

\* what C26 says of every state of a withRetry call
RetryBounded ==
  /\ retry.invoked <= retry.maxRetries
  /\ retry.pc = "returned"
     => /\ retry.invoked = Len(retry.settled)
        /\ retry.settled[Len(retry.settled)] = "resolved"
        /\ \A i \in 1..(Len(retry.settled) - 1) : retry.settled[i] # "resolved"
        /\ retry.raised = <<>>
  /\ retry.pc = "thrown"
     => /\ retry.invoked = retry.maxRetries
        /\ Len(retry.settled) = retry.maxRetries
        /\ \A i \in 1..Len(retry.settled) : retry.settled[i] # "resolved"
        /\ Len(retry.raised) = 1
        /\ retry.raised[1].name = "ImageProcessingError"
        /\ retry.raised[1].originalError =
             IF retry.maxRetries = 0 THEN UnknownError
             ELSE AttemptError(retry.settled[retry.maxRetries], retry.maxRetries)

FileSources == {source \in Sources : source.kind = "file"}

\* getOrCreateURL calls made with a source, and releaseURL calls made on the
\* urls those calls returned
RECURSIVE AcquiredOf(_, _)
AcquiredOf(source, i) ==
  IF i = 0 THEN 0
  ELSE (IF calls[i].source = source THEN calls[i].acquired ELSE 0)
       + AcquiredOf(source, i - 1)

RECURSIVE ReleasedOf(_, _)
ReleasedOf(source, i) ==
  IF i = 0 THEN 0
  ELSE (IF calls[i].source = source THEN calls[i].released ELSE 0)
       + ReleasedOf(source, i - 1)

\* the reference count the manager reports for the url registered for a source
RefCountOf(source) ==
  LET registered == {url \in DOMAIN urlMap :
                       urlMap[url].sourceKey = createSourceKey(source, now)}
  IN IF registered = {} THEN getRefCount(Registry, ExternalURL)
     ELSE getRefCount(Registry, CHOOSE url \in registered : TRUE)

\* C4 as stated: after any sequence of getOrCreateURL and releaseURL calls on a
\* File source, its refCount is max(0, acquires - releases)
C4_RefCountClamped ==
  \A source \in FileSources :
    RefCountOf(source) =
      Max(0, AcquiredOf(source, Len(calls)) - ReleasedOf(source, Len(calls)))

\* C4 amended: the count is kept per url, not per source: a registered url has
\* refCount = (getOrCreateURL calls that returned it) - (releaseURL calls made
\* on it), a url that is no longer registered has refCount 0, and releases made
\* on it are not held against the url created next for the same source
C4_RefCountPerURL ==
  \A url \in 1..nextUrl :
    getRefCount(Registry, url) =
      IF isManaged(Registry, url)
      THEN calls[url].acquired - calls[url].released
      ELSE 0

\* a File's url acquired twice and released once, so one reference is left
C4_Witness ==
  \E url \in DOMAIN urlMap :
    /\ calls[url].source \in FileSources
    /\ calls[url].acquired = 2
    /\ calls[url].released = 1
    /\ urlMap[url].refCount = 1

\* the live entries registered for the key of a source
LiveFor(source) ==
  {url \in DOMAIN urlMap :
     /\ urlMap[url].sourceKey = createSourceKey(source, now)
     /\ urlMap[url].refCount > 0}

\* C5: getOrCreateURL on a source whose key has a live entry returns that
\* entry's url, adds exactly one to its refCount and creates no object URL
C5_LiveEntryReused ==
  [][\A source \in Sources :
       getOrCreateURL(source)
       => \A url \in LiveFor(source) :
            /\ calls'[url].acquired = calls[url].acquired + 1
            /\ urlMap'[url].refCount = urlMap[url].refCount + 1
            /\ nextUrl' = nextUrl
            /\ platform' = platform
            /\ DOMAIN urlMap' = DOMAIN urlMap]_vars

\* one url returned by two getOrCreateURL calls and held twice
C5_Witness ==
  \E url \in DOMAIN urlMap :
    /\ calls[url].acquired = 2
    /\ urlMap[url].refCount = 2
    /\ nextUrl = 1

\* C6: at most one registered url per source identity, in every reachable state
C6_OneURLPerSource ==
  \A url \in DOMAIN urlMap, other \in DOMAIN urlMap :
    urlMap[url].sourceKey = urlMap[other].sourceKey => url = other

\* a File released to zero and acquired again: the first url is gone, the
\* second is the only one registered for it
C6_Witness ==
  /\ nextUrl = 2
  /\ calls[1].source \in FileSources
  /\ calls[2].source = calls[1].source
  /\ DOMAIN urlMap = {2}
  /\ platform = {2}

\* C18: a plain Blob is never deduplicated: no url made for a Blob is returned
\* by a second getOrCreateURL call, also not by one made at the same clock
\* reading with a Blob of equal size and type
C18_BlobNeverShared ==
  \A url \in 1..nextUrl :
    calls[url].source.kind = "blob" => calls[url].acquired <= 1

\* what C19 says of the url of the revokeURL call that ran last
Revoked(url, sourceKey) ==
  /\ url \notin platform
  /\ ~isManaged(Registry, url)
  /\ getRefCount(Registry, url) = 0
  /\ existingURL(Registry, sourceKey) = ExternalURL

\* C19 as stated: revokeURL on a managed url frees the platform resource and
\* removes the entry whatever its refCount: afterwards the url is not managed,
\* its refCount reads 0 and getOrCreateURL finds no url for its source
C19_RevokeRemoves ==
  ret.op = "revokeURL" => Revoked(ret.arg[1], ret.pre[2])

\* C19 amended: the same when the platform revoke returns; when it throws,
\* revokeURL changes nothing: the url stays managed with its refCount and is
\* found again for its source
C19_RevokeRemovesUnlessThrown ==
  ret.op = "revokeURL"
  => IF ret.outcome = "ok"
     THEN Revoked(ret.arg[1], ret.pre[2])
     ELSE /\ ret.arg[1] \in platform
          /\ isManaged(Registry, ret.arg[1])
          /\ getRefCount(Registry, ret.arg[1]) = ret.pre[1]
          /\ existingURL(Registry, ret.pre[2]) = ret.arg[1]

\* revokeURL ran on a url that was referenced twice, and the url is gone
C19_Witness ==
  /\ ret.op = "revokeURL"
  /\ ret.outcome = "ok"
  /\ ret.pre[1] = 2
  /\ ~isManaged(Registry, ret.arg[1])
  /\ ret.arg[1] \notin platform

\* C20: releaseURL on a url that has no entry (made outside the manager, or
\* revoked before) changes no entry of either map and no refCount, and does not
\* call the platform revoke
C20_ReleaseUnknownNoOp ==
  [][\A url \in (0..MaxAcquires) \ DOMAIN urlMap :
       (\/ releaseURL(url, TRUE)
        \/ url = ExternalURL /\ releaseExternalURL)
       => UNCHANGED <<urlMap, sourceKeyMap, platform, nextUrl>>]_vars

\* a url released once more after its entry was removed, while another url
\* is registered
C20_Witness ==
  \E url \in 1..nextUrl :
    /\ url \notin DOMAIN urlMap
    /\ calls[url].released > calls[url].acquired
    /\ DOMAIN urlMap # {}
    /\ \A other \in DOMAIN urlMap : urlMap[other].refCount = 1

\* a url that is registered and live on the platform before a step is so after
\* it, with the same entry but for its count
Kept(url) ==
  /\ url \in DOMAIN urlMap'
  /\ url \in platform'
  /\ urlMap'[url].sourceKey = urlMap[url].sourceKey
  /\ urlMap'[url].createdAt = urlMap[url].createdAt
  /\ existingURL([urlMap |-> urlMap', sourceKeyMap |-> sourceKeyMap',
                  platform |-> platform'], urlMap[url].sourceKey) = url

\* C21: a managed url that still has holders is not revoked by a releaseURL
\* call or by the idle sweep: releaseURL revokes only the url it is called on,
\* and only when the decremented refCount is <= 0; cleanup leaves every entry
\* with refCount > 0 as it is, however old
C21_HeldNeverRevoked ==
  [][\A held \in DOMAIN urlMap :
       /\ \A url \in 1..MaxAcquires, ok \in BOOLEAN :
            (/\ releaseURL(url, ok)
             /\ urlMap[held].refCount - (IF url = held THEN 1 ELSE 0) > 0)
            => /\ Kept(held)
               /\ urlMap'[held].refCount =
                    urlMap[held].refCount - (IF url = held THEN 1 ELSE 0)
       /\ \A failing \in SUBSET (1..MaxAcquires) :
            (cleanup(failing) /\ urlMap[held].refCount > 0)
            => Kept(held) /\ urlMap'[held] = urlMap[held]]_vars

\* a url acquired twice and released once is still registered, live and held
\* once at a timer instant at which it is older than maxAge
C21_Witness ==
  \E url \in DOMAIN urlMap :
    /\ calls[url].acquired = 2
    /\ calls[url].released = 1
    /\ urlMap[url].refCount = 1
    /\ url \in platform
    /\ now % CLEANUP_INTERVAL = 0
    /\ (now - urlMap[url].createdAt) > DEFAULT_MAX_AGE

\* C22: a platform revoke that throws is not propagated to the caller of
\* releaseURL, revokeURL, cleanup or dispose: each of them returns
C22_RevokeFailureCaught ==
  ret.op \in {"releaseURL", "revokeURL", "cleanup", "dispose"} => ~ret.threw

\* each of the four was called with the platform revoke throwing, and returned:
\* this is the sweep over an idle url whose revoke throws again
C22_Witness ==
  /\ ret.op = "cleanup"
  /\ ret.outcome = "threw"
  /\ ret.arg[1] # {}
  /\ ret.arg[1] \subseteq DOMAIN urlMap
  /\ ~ret.threw

\* C23: every registered reference has refCount >= 0, and getRefCount returns
\* no negative number
C23_RefCountNonNegative ==
  \A url \in 0..nextUrl :
    /\ getRefCount(Registry, url) >= 0
    /\ isManaged(Registry, url) => urlMap[url].refCount >= 0

\* a registered url whose count is zero or less, created early enough for the
\* modelled clock to pass its maxAge
Idle(url) ==
  /\ url \in DOMAIN urlMap
  /\ urlMap[url].refCount <= 0
  /\ urlMap[url].createdAt + DEFAULT_MAX_AGE < MaxTicks * DEFAULT_MAX_AGE

PreviewFinished == preview.pc = "gone" /\ preview.running = EmptyBag

\* C29: ImagePreview releases every url it acquired with getOrCreateURL
\* exactly once: at no time has it made more releaseURL calls on a url than
\* getOrCreateURL calls that returned it, and once it has unmounted and its
\* asynchronous work has finished it has released each url as often as it
\* acquired it and no url it acquired has refCount > 0
C29_AcquiredReleasedOnce ==
  /\ \A url \in 1..nextUrl : calls[url].released <= calls[url].acquired
  /\ PreviewFinished =>
       \A url \in 1..nextUrl :
         /\ calls[url].released = calls[url].acquired
         /\ getRefCount(Registry, url) <= 0


====
